---- MODULE Spec2Model ----
(***************************************************************************)
(* A model of dnsdumpster/DNSDumpsterAPI.py: the DNSDumpsterAPI client      *)
(* (token fetch at construction, get_dnsdumpster, parse_dnsdumpster,        *)
(* search) and its two table extractors.                                    *)
(*                                                                          *)
(* Text is a sequence of one-character strings.  A <td> is a record         *)
(* [kids |-> sequence of nodes]; a node is a text node, a <br/> or a <span>.*)
(* A row (<tr>) is the sequence of its <td>s, a table the sequence of its   *)
(* rows; tables are flat (no table nested in a cell) and text holds none of *)
(* the characters markup escapes.  Python's 0-based x[i] is x[i + 1] here.  *)
(* A Python exception is an outcome of kind "raise".  The verbose flag      *)
(* only prints and is left out.                                             *)
(***************************************************************************)
EXTENDS Integers, Sequences, FiniteSets, TLC

VARIABLES authorization, pc, landingGets, posts, calls, arg, ret

vars == <<authorization, pc, landingGets, posts, calls, arg, ret>>

\* Python's None.
None == "None"

(***************************************************************************)
(* Text helpers: what str.split, str.splitlines, str.strip, str.join and    *)
(* re.findall of the dotted-quad pattern compute.                           *)
(***************************************************************************)

IsSpace(c) == c \in {" ", "\n", "\t", "\r"}

IsDigit(c) == c \in {"0", "1", "2", "3", "4", "5", "6", "7", "8", "9"}

\* s[i..] starts with p (i is 1-based).
StartsAt(s, p, i) == /\ i + Len(p) - 1 <= Len(s)
                     /\ SubSeq(s, i, i + Len(p) - 1) = p

\* The least index >= i at which p occurs in s, or 0.
RECURSIVE FindFrom(_, _, _)
FindFrom(s, p, i) ==
    IF i + Len(p) - 1 > Len(s) THEN 0
    ELSE IF StartsAt(s, p, i) THEN i
    ELSE FindFrom(s, p, i + 1)

\* str.split(sep): the pieces of s between the occurrences of sep.
RECURSIVE Split(_, _)
Split(s, sep) ==
    LET k == FindFrom(s, sep, 1)
    IN  IF k = 0 THEN <<s>>
        ELSE <<SubSeq(s, 1, k - 1)>> \o Split(SubSeq(s, k + Len(sep), Len(s)), sep)

\* str.splitlines(): the lines of s, without a last empty piece.
SplitLines(s) ==
    LET parts == Split(s, <<"\n">>)
    IN  IF parts[Len(parts)] = <<>> THEN SubSeq(parts, 1, Len(parts) - 1) ELSE parts

RECURSIVE LStrip(_)
LStrip(s) == IF s # <<>> /\ IsSpace(Head(s)) THEN LStrip(Tail(s)) ELSE s

RECURSIVE RStrip(_)
RStrip(s) == IF s # <<>> /\ IsSpace(s[Len(s)]) THEN RStrip(SubSeq(s, 1, Len(s) - 1)) ELSE s

\* str.strip()
Strip(s) == RStrip(LStrip(s))

\* sep.join(parts)
RECURSIVE Join(_, _)
Join(parts, sep) ==
    IF parts = <<>> THEN <<>>
    ELSE IF Len(parts) = 1 THEN parts[1]
    ELSE parts[1] \o sep \o Join(Tail(parts), sep)

\* The number of consecutive digits of s from index i on.
RECURSIVE DigitRun(_, _)
DigitRun(s, i) == IF i <= Len(s) /\ IsDigit(s[i]) THEN 1 + DigitRun(s, i + 1) ELSE 0

\* [0-9]{1,3}\. at index i: the index after the dot, or 0.
OctetDot(s, i) ==
    LET n == DigitRun(s, i)
    IN  IF i # 0 /\ n \in 1..3 /\ i + n <= Len(s) /\ s[i + n] = "." THEN i + n + 1 ELSE 0

\* pattern_ip matched at index i: the index of the match's last character, or 0.
IpEndAt(s, i) ==
    LET a == OctetDot(s, i)
        b == OctetDot(s, a)
        c == OctetDot(s, b)
        n == IF c = 0 THEN 0 ELSE DigitRun(s, c)
    IN  IF c # 0 /\ n >= 1 THEN c + (IF n > 3 THEN 3 ELSE n) - 1 ELSE 0

\* re.findall(pattern_ip, s)[0]: the leftmost match, or <<>> when there is none
\* (findall returns [] and [0] raises IndexError; a match is never empty).
RECURSIVE FirstIpFrom(_, _)
FirstIpFrom(s, i) ==
    IF i > Len(s) THEN <<>>
    ELSE IF IpEndAt(s, i) # 0 THEN SubSeq(s, i, IpEndAt(s, i))
    ELSE FirstIpFrom(s, i + 1)

FirstIp(s) == FirstIpFrom(s, 1)

(***************************************************************************)
(* The document tree as BeautifulSoup gives it.                            *)
(***************************************************************************)

TextNode(s) == [k |-> "text", cls |-> "", s |-> s]

BrNode == [k |-> "br", cls |-> "", s |-> <<>>]

SpanNode(cls, s) == [k |-> "span", cls |-> cls, s |-> s]

Td(kids) == [kids |-> kids]

BrTag == <<"<", "b", "r", "/", ">">>

TdOpen == <<"<", "t", "d", ">">>

TdClose == <<"<", "/", "t", "d", ">">>

SpanOpen(cls) ==
    IF cls = "" THEN <<"<", "s", "p", "a", "n", ">">>
    ELSE <<"<", "s", "p", "a", "n", " ", "c", "l", "a", "s", "s", "=", "\"", cls, "\"", ">">>

SpanClose == <<"<", "/", "s", "p", "a", "n", ">">>

\* str(node): the node's markup.
NodeStr(n) ==
    IF n.k = "text" THEN n.s
    ELSE IF n.k = "br" THEN BrTag
    ELSE SpanOpen(n.cls) \o n.s \o SpanClose

RECURSIVE KidsStr(_)
KidsStr(kids) == IF kids = <<>> THEN <<>> ELSE NodeStr(Head(kids)) \o KidsStr(Tail(kids))

\* str(td)
TdStr(td) == TdOpen \o KidsStr(td.kids) \o TdClose

\* td.text: the text of every node under td, concatenated.
RECURSIVE KidsText(_)
KidsText(kids) == IF kids = <<>> THEN <<>> ELSE Head(kids).s \o KidsText(Tail(kids))

TdText(td) == KidsText(td.kids)

IsSpan(n) == n.k = "span"

IsSmText(n) == n.k = "span" /\ n.cls = "sm-text"

(***************************************************************************)
(* retrieve_results: the A / MX / NS extractor.                             *)
(***************************************************************************)

NA == <<"N", "/", "A">>

NonBlank(line) == Strip(line) # <<>>

RECURSIVE StripAll(_)
StripAll(lines) == IF lines = <<>> THEN <<>> ELSE <<Strip(Head(lines))>> \o StripAll(Tail(lines))

\* open_service with the empty string, not "N/A", for a row without a fifth cell.
open_service_empty_default(tds) ==
    IF Len(tds) > 4
    THEN Join(StripAll(SelectSeq(SplitLines(TdText(tds[5])), NonBlank)), <<"\n">>)
    ELSE <<>>

\* The value of open_service for a row's cells (lines 140-147).
open_service(tds) ==
    IF Len(tds) > 4
    THEN Join(StripAll(SelectSeq(SplitLines(TdText(tds[5])), NonBlank)), <<"\n">>)
    ELSE NA

\* The body of the loop of retrieve_results for one row: [ok |-> TRUE, data |-> d]
\* when the try block reaches res.append(d), [ok |-> FALSE, ...] when a
\* statement of the try block raises (swallowed by `except Exception: pass`).
extract_row(tds) ==
    LET Raise(e) == [ok |-> FALSE, exc |-> e, data |-> <<>>]
        first == Split(TdStr(tds[1]), BrTag)[1]
        hostParts == Split(first, <<">">>)
        host == Split(hostParts[2], <<"<">>)[1]
        ip == FirstIp(TdText(tds[2]))
        spans == SelectSeq(tds[2].kids, IsSpan)
        reverse_dns == IF spans # <<>> THEN spans[1].s ELSE <<>>
        autonomous_system == IF Len(tds) > 2 THEN TdText(tds[3]) ELSE <<>>
        hasNL == FindFrom(autonomous_system, <<"\n">>, 1) # 0
        asParts == Split(autonomous_system, <<"\n">>)
        asn == IF hasNL THEN asParts[2] ELSE <<>>
        asn_range == IF hasNL THEN asParts[3] ELSE <<>>
        span_elements == IF Len(tds) > 3 THEN SelectSeq(tds[4].kids, IsSmText) ELSE <<>>
        asn_name == IF Len(span_elements) > 0 THEN Strip(span_elements[1].s) ELSE <<>>
        country == IF Len(span_elements) > 1 THEN Strip(span_elements[2].s) ELSE <<>>
    IN  IF Len(tds) < 1 \/ Len(hostParts) < 2 THEN Raise("IndexError")
        ELSE IF Len(tds) < 2 \/ ip = <<>> THEN Raise("IndexError")
        ELSE IF hasNL /\ Len(asParts) < 3 THEN Raise("IndexError")
        ELSE [ok |-> TRUE, exc |-> "",
              data |-> [host |-> host, ip |-> ip, reverse_dns |-> reverse_dns,
                        as |-> asn, asn_range |-> asn_range, asn_name |-> asn_name,
                        asn_country |-> country, open_service |-> open_service(tds)]]

\* retrieve_results(table): the entries of the rows whose extraction did not raise.
RECURSIVE retrieve_results(_)
retrieve_results(table) ==
    IF table = <<>> THEN <<>>
    ELSE LET r == extract_row(Head(table))
         IN  (IF r.ok THEN <<r.data>> ELSE <<>>) \o retrieve_results(Tail(table))

(***************************************************************************)
(* retrieve_txt_record: the TXT extractor.                                  *)
(***************************************************************************)

\* table.findAll('td'): the cells of every row, in document order.
RECURSIVE AllTds(_)
AllTds(table) == IF table = <<>> THEN <<>> ELSE Head(table) \o AllTds(Tail(table))

RECURSIVE StripTexts(_)
StripTexts(tds) ==
    IF tds = <<>> THEN <<>> ELSE <<Strip(TdText(Head(tds)))>> \o StripTexts(Tail(tds))

NonEmptyText(td) == Strip(TdText(td)) # <<>>

\* retrieve_txt_record skipping the cells whose trimmed text is empty.
retrieve_txt_record_skip_empty(table) == StripTexts(SelectSeq(AllTds(table), NonEmptyText))

retrieve_txt_record(table) == StripTexts(AllTds(table))

(***************************************************************************)
(* HTTP.  A response is [err, status, token, html, content]: err is a       *)
(* network error raised by requests (no response); token is what the        *)
(* Authorization pattern captures in the body (None: no match); html is     *)
(* the body as a document; content is the body's bytes.                     *)
(***************************************************************************)

\* An HTML body: `empty` is the empty string, `tables` its <table> elements in
\* document order, `maps` / `xlsx` the domain named by the first map / xlsx
\* asset URL in the text (None: the text holds no such URL).
Html(tables, maps, xlsx) == [empty |-> FALSE, tables |-> tables, maps |-> maps, xlsx |-> xlsx]

EmptyBody == [empty |-> TRUE, tables |-> <<>>, maps |-> None, xlsx |-> None]

Response(status, token, html, content) ==
    [err |-> FALSE, status |-> status, token |-> token, html |-> html, content |-> content]

NetworkError == [err |-> TRUE, status |-> 0, token |-> None, html |-> EmptyBody, content |-> <<>>]

\* No request is made, so no response is consumed.
NoRequest == [err |-> FALSE, status |-> -1, token |-> None, html |-> EmptyBody, content |-> <<>>]

B64Chars ==
    <<"A", "B", "C", "D", "E", "F", "G", "H", "I", "J", "K", "L", "M", "N", "O", "P",
      "Q", "R", "S", "T", "U", "V", "W", "X", "Y", "Z", "a", "b", "c", "d", "e", "f",
      "g", "h", "i", "j", "k", "l", "m", "n", "o", "p", "q", "r", "s", "t", "u", "v",
      "w", "x", "y", "z", "0", "1", "2", "3", "4", "5", "6", "7", "8", "9", "+", "/">>

\* base64.b64encode(bytes).decode('utf-8')
RECURSIVE b64encode(_)
b64encode(bs) ==
    LET C(i) == B64Chars[i + 1]
        b1 == bs[1]
        b2 == IF Len(bs) > 1 THEN bs[2] ELSE 0
        b3 == IF Len(bs) > 2 THEN bs[3] ELSE 0
        n == b1 * 65536 + b2 * 256 + b3
    IN  IF bs = <<>> THEN <<>>
        ELSE IF Len(bs) = 1 THEN <<C(n \div 262144), C((n \div 4096) % 64), "=", "=">>
        ELSE IF Len(bs) = 2
             THEN <<C(n \div 262144), C((n \div 4096) % 64), C((n \div 64) % 64), "=">>
        ELSE <<C(n \div 262144), C((n \div 4096) % 64), C((n \div 64) % 64), C(n % 64)>>
             \o b64encode(SubSeq(bs, 4, Len(bs)))

(***************************************************************************)
(* The client's methods, as functions of the client's state and of the      *)
(* responses the network gives.                                             *)
(***************************************************************************)

\* get_token: the token, or None.  A network error is raised by session.get
\* and is not caught.
get_token(resp) ==
    IF resp.err THEN [kind |-> "raise", exc |-> "ConnectionError", token |-> None]
    ELSE IF resp.status = 200
         THEN IF resp.token # None
              THEN [kind |-> "return", exc |-> "", token |-> resp.token]
              ELSE [kind |-> "return", exc |-> "", token |-> None]
    ELSE [kind |-> "return", exc |-> "", token |-> None]

\* get_dnsdumpster returning the body whatever the status.
get_dnsdumpster_any_status(auth, target, resp) ==
    IF auth = None \/ auth = ""
    THEN [kind |-> "none", exc |-> "", html |-> EmptyBody, posted |-> 0]
    ELSE IF resp.err
    THEN [kind |-> "raise", exc |-> "ConnectionError", html |-> EmptyBody, posted |-> 1]
    ELSE [kind |-> "html", exc |-> "", html |-> resp.html, posted |-> 1]

\* get_dnsdumpster: kind "html" (response.text), "none" (None) or "raise";
\* posted is the number of POSTs issued.
get_dnsdumpster(auth, target, resp) ==
    IF auth = None \/ auth = ""
    THEN [kind |-> "none", exc |-> "", html |-> EmptyBody, posted |-> 0]
    ELSE IF resp.err
    THEN [kind |-> "raise", exc |-> "ConnectionError", html |-> EmptyBody, posted |-> 1]
    ELSE IF resp.status # 200
    THEN [kind |-> "none", exc |-> "", html |-> EmptyBody, posted |-> 1]
    ELSE [kind |-> "html", exc |-> "", html |-> resp.html, posted |-> 1]

\* A nullable string: Python's None, or a str.
Null == [null |-> TRUE, s |-> <<>>]

Str(s) == [null |-> FALSE, s |-> s]

\* One asset's try / except / finally block (lines 85-96, 99-110): url is the
\* domain named by the asset URL in the html, resp the answer to the GET.
fetch_asset(url, domain, resp) ==
    IF url # domain THEN [data |-> Null, fetched |-> 0]
    ELSE IF resp.err THEN [data |-> Null, fetched |-> 1]
    ELSE [data |-> Str(b64encode(resp.content)), fetched |-> 1]

NoResult == [domain |-> None]

\* The outcomes of parse_dnsdumpster that make no request.
ParseRaise(e) == [kind |-> "raise", exc |-> e, val |-> NoResult, imgGets |-> 0, xlsGets |-> 0]

ParseNone == [kind |-> "none", exc |-> "", val |-> NoResult, imgGets |-> 0, xlsGets |-> 0]

\* parse_dnsdumpster whose image block lets the exception of a failed GET escape.
parse_dnsdumpster_image_uncaught(html, domain, imgResp, xlsResp) ==
    LET tables == html.tables
        img == fetch_asset(html.maps, domain, imgResp)
        xls == fetch_asset(html.xlsx, domain, xlsResp)
    IN  IF Len(tables) >= 4
        THEN IF Len(tables) < 5
             THEN ParseRaise("IndexError")
             ELSE IF html.maps = domain /\ imgResp.err
             THEN [kind |-> "raise", exc |-> "ConnectionError", val |-> NoResult,
                   imgGets |-> 1, xlsGets |-> 0]
             ELSE [kind |-> "result", exc |-> "",
                   val |-> [domain |-> domain,
                            dns_records |-> [a |-> retrieve_results(tables[2]),
                                             mx |-> retrieve_results(tables[3]),
                                             ns |-> retrieve_results(tables[4]),
                                             txt |-> retrieve_txt_record(tables[5])],
                            image_data |-> img.data,
                            xls_data |-> xls.data],
                   imgGets |-> img.fetched, xlsGets |-> xls.fetched]
        ELSE ParseNone

\* parse_dnsdumpster: kind "result" (the dict res), "none" (None) or "raise";
\* imgGets / xlsGets are the numbers of GETs issued for each asset.
parse_dnsdumpster(html, domain, imgResp, xlsResp) ==
    LET tables == html.tables
        img == fetch_asset(html.maps, domain, imgResp)
        xls == fetch_asset(html.xlsx, domain, xlsResp)
    IN  IF Len(tables) >= 4
        THEN IF Len(tables) < 5
             THEN ParseRaise("IndexError")
             ELSE [kind |-> "result", exc |-> "",
                   val |-> [domain |-> domain,
                            dns_records |-> [a |-> retrieve_results(tables[2]),
                                             mx |-> retrieve_results(tables[3]),
                                             ns |-> retrieve_results(tables[4]),
                                             txt |-> retrieve_txt_record(tables[5])],
                            image_data |-> img.data,
                            xls_data |-> xls.data],
                   imgGets |-> img.fetched, xlsGets |-> xls.fetched]
        ELSE ParseNone

\* search: out is what search returns or raises (with the asset GETs issued),
\* posted the number of POSTs issued, parsed whether parse_dnsdumpster was called.
search(auth, domain, postResp, imgResp, xlsResp) ==
    LET sub == get_dnsdumpster(auth, domain, postResp)
    IN  [posted |-> sub.posted,
         parsed |-> sub.kind = "html" /\ ~sub.html.empty,
         out |-> IF sub.kind = "raise" THEN ParseRaise(sub.exc)
                 ELSE IF sub.kind = "html" /\ ~sub.html.empty
                 THEN parse_dnsdumpster(sub.html, domain, imgResp, xlsResp)
                 ELSE ParseNone]

(***************************************************************************)
(* Bounds and the inputs the checks run over.                               *)
(***************************************************************************)

\* Calls of search / get_dnsdumpster / parse_dnsdumpster on one client.
MaxCalls == 2

\* <table> elements in an HTML body.
MaxTables == 6

\* Rows of a table given to retrieve_results.
MaxRows == 2

\* Characters of the text of a row's fifth cell.
MaxTextLen == 4

\* Rows of a table given to retrieve_txt_record.
MaxTxtRows == 2

Domains == {"a.com", "b.org"}

Tokens == {"tokA", "tokB"}

DomainOpt == Domains \cup {None}

T(s) == Td(<<TextNode(s)>>)

IpText == <<"1", ".", "2", ".", "3", ".", "4">>

HostCell == Td(<<TextNode(<<"g">>), BrNode, TextNode(<<"x">>)>>)

IpCells == {T(<<"a", " ">> \o IpText \o <<"5", " ", "9", ".", "9", ".", "9", ".", "9">>),
            T(<<"1", ".", "2", ".", "3">>)}

AsCells == {T(<<"A", "S">>), T(<<"A", "S", "\n", "7">>), T(<<"\n", "7", "\n", "r", "\n">>)}

NameCell == Td(<<SpanNode("sm-text", <<" ", "n", " ">>), SpanNode("", <<"z">>),
                 SpanNode("sm-text", <<"c">>)>>)

ServiceCell == T(<<" ", "s", "\n", "\n", "w", " ">>)

\* The first n cells of cs.
FirstCells(cs, n) == SubSeq(cs, 1, IF n < Len(cs) THEN n ELSE Len(cs))

\* Rows of every cell count 0..5 over the sample cells.
SampleRows ==
    {FirstCells(<<HostCell, i, a, NameCell, ServiceCell>>, n) :
        i \in IpCells, a \in AsCells, n \in 0..5}

\* Every text of at most n characters over the alphabet A.
RECURSIVE Texts(_, _)
Texts(A, n) ==
    IF n = 0 THEN {<<>>}
    ELSE LET shorter == Texts(A, n - 1)
         IN  shorter \cup {Append(t, c) : t \in shorter, c \in A}

ServiceAlphabet == {"N", "/", "A", " ", "\n"}

\* Rows of 0..6 cells with an extractable host and ip, a reverse-DNS span, and
\* every text over ServiceAlphabet in the fifth cell.
ServiceRows ==
    {FirstCells(<<T(<<"h">>), Td(<<TextNode(IpText), SpanNode("", <<"r">>)>>),
                  T(<<"\n", "7", "\n", "r">>), c3, T(t), T(<<"x">>)>>, n) :
        c3 \in {NameCell, T(<<>>)}, t \in Texts(ServiceAlphabet, MaxTextLen), n \in 0..6}

\* Every sequence of at most n elements of S.
RECURSIVE SeqsUpTo(_, _)
SeqsUpTo(S, n) ==
    IF n = 0 THEN {<<>>}
    ELSE LET shorter == SeqsUpTo(S, n - 1)
         IN  shorter \cup {Append(q, x) : q \in shorter, x \in S}

\* The tables given to retrieve_results.
RowTables == SeqsUpTo(SampleRows, MaxRows) \cup {<<r>> : r \in ServiceRows}

TxtCells == {T(<<>>), T(<<"v">>),
             Td(<<TextNode(<<" ", "v", " ">>), BrNode, SpanNode("", <<"w", "\n">>)>>)}

\* The tables given to retrieve_txt_record.
TxtTables == SeqsUpTo(SeqsUpTo(TxtCells, 2), MaxTxtRows)

GoodRow == <<T(<<"h">>), T(IpText)>>

\* The table at (0-based) index i of the sample document.
DocTable(i) ==
    IF i = 1 THEN <<GoodRow, <<T(<<"h">>), T(<<"x">>)>> >>
    ELSE IF i = 2 THEN <<GoodRow \o <<T(<<"\n", "7", "\n", "r">>), NameCell, ServiceCell>> >>
    ELSE IF i = 4 THEN << <<T(<<" ", "v", " ">>), T(<<"t">>)>> >>
    ELSE <<>>

\* The first n tables of the sample document, with txt as the table at index 4.
DocTables(n, txt) == [i \in 1..n |-> IF i = 5 THEN txt ELSE DocTable(i - 1)]

\* Bodies for parse_dnsdumpster: every table count, every pair of asset URLs.
HtmlSet == {Html(DocTables(n, DocTable(4)), m, x) :
                n \in 0..MaxTables, m \in DomainOpt, x \in DomainOpt}

\* Bodies the API answers a client with: every table count, tables without
\* rows, no asset URL or both asset URLs of a.com.
ClientHtmlSet == {Html([i \in 1..n |-> <<>>], m, m) : n \in 0..MaxTables, m \in {None, "a.com"}}

\* Bodies of 5 and of MaxTables tables whose table 4 is any of TxtTables.
TxtHtmlSet == {Html(DocTables(n, t), None, None) : n \in {5, MaxTables}, t \in TxtTables}

LandingResponses ==
    {NetworkError, Response(503, "tokA", EmptyBody, <<>>)}
        \cup {Response(200, t, EmptyBody, <<>>) : t \in Tokens \cup {None}}

PostResponses ==
    {NetworkError, Response(200, None, EmptyBody, <<>>),
     Response(403, None, Html([i \in 1..5 |-> <<>>], "a.com", "a.com"), <<>>)}
        \cup {Response(200, None, h, <<>>) : h \in ClientHtmlSet}

AssetResponses ==
    {NetworkError, Response(404, None, EmptyBody, <<52, 48, 52>>),
     Response(200, None, EmptyBody, <<80, 75, 3, 4>>)}

(***************************************************************************)
(* The client as a state machine.  pc is "new" before DNSDumpsterAPI() is   *)
(* called, "ready" once __init__ has returned, "failed" when __init__       *)
(* raised (no client exists).  arg and ret are the arguments and the        *)
(* outcome of the last call; landingGets and posts count the GETs of the    *)
(* landing page and the POSTs of the API issued so far.                      *)
(***************************************************************************)

Arg(op, domain, html, post, img, xls, table) ==
    [op |-> op, domain |-> domain, html |-> html, post |-> post, img |-> img,
     xls |-> xls, table |-> table]

Ret(kind, exc, val, html, rows, imgGets, xlsGets, posted, parsed) ==
    [kind |-> kind, exc |-> exc, val |-> val, html |-> html, rows |-> rows,
     imgGets |-> imgGets, xlsGets |-> xlsGets, posted |-> posted, parsed |-> parsed]

NoArg == Arg("", None, EmptyBody, NoRequest, NoRequest, NoRequest, <<>>)

NoRet == Ret("pending", "", NoResult, EmptyBody, <<>>, 0, 0, 0, FALSE)

Init ==
    /\ pc = "new"
    /\ authorization = None
    /\ landingGets = 0
    /\ posts = 0
    /\ calls = 0
    /\ arg = NoArg
    /\ ret = NoRet

\* DNSDumpsterAPI(): __init__ stores the outcome of get_token.
Construct(resp) ==
    \E t \in {get_token(resp)} :
        /\ pc = "new"
        /\ landingGets' = landingGets + 1
        /\ pc' = IF t.kind = "raise" THEN "failed" ELSE "ready"
        /\ authorization' = IF t.kind = "raise" THEN authorization ELSE t.token
        /\ arg' = Arg("init", None, EmptyBody, resp, NoRequest, NoRequest, <<>>)
        /\ ret' = Ret(t.kind, t.exc, NoResult, EmptyBody, <<>>, 0, 0, 0, FALSE)
        /\ UNCHANGED <<posts, calls>>

\* A response is given exactly when the request is made.
Consumed(resp, n) == (resp = NoRequest) <=> (n = 0)

\* search re-fetching the token when the POST is rejected.
SearchRefetch(domain, post, img, xls) ==
    \E s \in {search(authorization, domain, post, img, xls)} :
        /\ pc = "ready"
        /\ calls < MaxCalls
        /\ Consumed(post, s.posted)
        /\ Consumed(img, s.out.imgGets)
        /\ Consumed(xls, s.out.xlsGets)
        /\ calls' = calls + 1
        /\ posts' = posts + s.posted
        /\ arg' = Arg("search", domain, EmptyBody, post, img, xls, <<>>)
        /\ ret' = Ret(s.out.kind, s.out.exc, s.out.val, EmptyBody, <<>>, s.out.imgGets,
                      s.out.xlsGets, s.posted, s.parsed)
        /\ landingGets' = IF s.posted = 1 /\ ~s.parsed THEN landingGets + 1 ELSE landingGets
        /\ authorization' = IF s.posted = 1 /\ ~s.parsed THEN "tokB" ELSE authorization
        /\ UNCHANGED pc

\* client.search(domain)
Search(domain, post, img, xls) ==
    \E s \in {search(authorization, domain, post, img, xls)} :
        /\ pc = "ready"
        /\ calls < MaxCalls
        /\ Consumed(post, s.posted)
        /\ Consumed(img, s.out.imgGets)
        /\ Consumed(xls, s.out.xlsGets)
        /\ calls' = calls + 1
        /\ posts' = posts + s.posted
        /\ arg' = Arg("search", domain, EmptyBody, post, img, xls, <<>>)
        /\ ret' = Ret(s.out.kind, s.out.exc, s.out.val, EmptyBody, <<>>, s.out.imgGets,
                      s.out.xlsGets, s.posted, s.parsed)
        /\ UNCHANGED <<pc, authorization, landingGets>>

\* client.get_dnsdumpster(target)
Submit(target, post) ==
    \E out \in {get_dnsdumpster(authorization, target, post)} :
        /\ pc = "ready"
        /\ calls < MaxCalls
        /\ Consumed(post, out.posted)
        /\ calls' = calls + 1
        /\ posts' = posts + out.posted
        /\ arg' = Arg("submit", target, EmptyBody, post, NoRequest, NoRequest, <<>>)
        /\ ret' = Ret(out.kind, out.exc, NoResult, out.html, <<>>, 0, 0, out.posted, FALSE)
        /\ UNCHANGED <<pc, authorization, landingGets>>

\* client.parse_dnsdumpster(html, domain)
Parse(html, domain, img, xls) ==
    \E out \in {parse_dnsdumpster(html, domain, img, xls)} :
        /\ pc = "ready"
        /\ calls < MaxCalls
        /\ Consumed(img, out.imgGets)
        /\ Consumed(xls, out.xlsGets)
        /\ calls' = calls + 1
        /\ arg' = Arg("parse", domain, html, NoRequest, img, xls, <<>>)
        /\ ret' = Ret(out.kind, out.exc, out.val, EmptyBody, <<>>, out.imgGets,
                      out.xlsGets, 0, TRUE)
        /\ UNCHANGED <<pc, authorization, landingGets, posts>>

\* The responses the network may give to n requests: one of S for a request
\* made, none for a request not made.
Answers(S, n) == IF n = 0 THEN {NoRequest} ELSE S

\* The POSTs a call of get_dnsdumpster issues on this client.
PostsIssued == get_dnsdumpster(authorization, "a.com", NetworkError).posted

Next ==
    \/ \E resp \in LandingResponses : Construct(resp)
    \/ \E d \in Domains, post \in Answers(PostResponses, PostsIssued) :
          \E probe \in {search(authorization, d, post, NetworkError, NetworkError)} :
             \E img \in Answers(AssetResponses, probe.out.imgGets),
                xls \in Answers(AssetResponses, probe.out.xlsGets) : Search(d, post, img, xls)
    \/ \E d \in Domains, post \in Answers(PostResponses, PostsIssued) : Submit(d, post)
    \/ \E h \in ClientHtmlSet \cup {EmptyBody}, d \in Domains :
          \E probe \in {parse_dnsdumpster(h, d, NetworkError, NetworkError)} :
             \E img \in Answers(AssetResponses, probe.imgGets),
                xls \in Answers(AssetResponses, probe.xlsGets) : Parse(h, d, img, xls)

Spec == Init /\ [][Next]_vars

(***************************************************************************)
(* The extractors as pure functions: the input is drawn by the initial      *)
(* state and one call applies the function to it.                           *)
(***************************************************************************)

InitRows ==
    /\ pc = "call"
    /\ authorization = None
    /\ landingGets = 0
    /\ posts = 0
    /\ calls = 0
    /\ arg \in {Arg("retrieve_results", None, EmptyBody, NoRequest, NoRequest, NoRequest, t) :
                    t \in RowTables}
    /\ ret = NoRet

\* retrieve_results(arg.table)
CallRetrieveResults ==
    /\ pc = "call"
    /\ arg.op = "retrieve_results"
    /\ pc' = "done"
    /\ calls' = calls + 1
    /\ ret' = Ret("rows", "", NoResult, EmptyBody, retrieve_results(arg.table), 0, 0, 0, FALSE)
    /\ UNCHANGED <<authorization, landingGets, posts, arg>>

NextRows == CallRetrieveResults

SpecRows == InitRows /\ [][NextRows]_vars

\* A constructed client about to parse a body: one of HtmlSet with the answers
\* to the asset requests it causes, or one whose table 4 is drawn from TxtTables.
InitParse ==
    /\ pc = "call"
    /\ authorization = "tokA"
    /\ landingGets = 1
    /\ posts = 0
    /\ calls = 0
    /\ \E d \in Domains, h \in HtmlSet \cup TxtHtmlSet :
          /\ h \in TxtHtmlSet => d = "a.com"
          /\ \E probe \in {parse_dnsdumpster(h, d, NetworkError, NetworkError)} :
                \E img \in Answers(AssetResponses, probe.imgGets),
                   xls \in Answers(AssetResponses, probe.xlsGets) :
                   arg = Arg("parse", d, h, NoRequest, img, xls, <<>>)
    /\ ret = NoRet

\* parse_dnsdumpster(arg.html, arg.domain)
CallParse ==
    \E out \in {parse_dnsdumpster(arg.html, arg.domain, arg.img, arg.xls)} :
        /\ pc = "call"
        /\ arg.op = "parse"
        /\ pc' = "done"
        /\ calls' = calls + 1
        /\ ret' = Ret(out.kind, out.exc, out.val, EmptyBody, <<>>, out.imgGets,
                      out.xlsGets, 0, TRUE)
        /\ UNCHANGED <<authorization, landingGets, posts, arg>>

NextParse == CallParse

SpecParse == InitParse /\ [][NextParse]_vars

(***************************************************************************)
(* Properties.                                                              *)
(***************************************************************************)

\* A call of parse_dnsdumpster has returned or raised.
Parsed == pc = "done" /\ arg.op = "parse"

NumTables == Len(arg.html.tables)

\* C1: parse(html, domain) returns a Query Result whose dns_records has exactly
\* the keys a, mx, ns, txt if and only if the html has at least 5 tables; with
\* fewer than 5 tables it returns None and does nothing else (no asset GET).
C1_ResultIffFiveTables ==
    Parsed =>
        /\ (ret.kind = "result") <=> (NumTables >= 5)
        /\ ret.kind = "result" => DOMAIN ret.val.dns_records = {"a", "mx", "ns", "txt"}
        /\ NumTables < 5 => ret.kind = "none" /\ ret.imgGets = 0 /\ ret.xlsGets = 0

\* The transport failed: a network error, or a status other than 200.
TransportFailure(resp) == resp.err \/ resp.status # 200

\* C2: a transport failure of the token fetch or of the submit step (a non-200
\* status or a network error raised by the HTTP call) gives an absent result
\* and no exception reaches the caller of construction, submit or search.
C2_TransportFailureIsAbsent ==
    /\ arg.op \in {"init", "submit", "search"} => ret.kind # "raise"
    /\ (arg.op = "init" /\ TransportFailure(arg.post)) => (pc = "ready" /\ authorization = None)
    /\ (arg.op \in {"submit", "search"} /\ arg.post # NoRequest /\ TransportFailure(arg.post))
           => ret.kind = "none"

\* The POST was answered with a status other than 200.
Rejected == arg.post # NoRequest /\ ~arg.post.err /\ arg.post.status # 200

\* C3: search returns None without calling the parser whenever the token is None
\* or the POST is answered with a status other than 200; with the token None no
\* POST is issued, by that search or ever on that client.
C3_SearchShortCircuits ==
    /\ (arg.op = "search" /\ (authorization = None \/ Rejected))
           => (ret.kind = "none" /\ ~ret.parsed /\ ret.imgGets = 0 /\ ret.xlsGets = 0)
    /\ (pc = "ready" /\ authorization = None)
           => (posts = 0 /\ ret.posted = 0 /\ (arg.op # "init" => arg.post = NoRequest))

\* A search with a token whose POST is rejected: the POST is issued, the parser is not called.
C3_Witness ==
    /\ arg.op = "search" /\ authorization \in Tokens /\ Rejected
    /\ arg.post.html.tables # <<>>
    /\ ret.kind = "none" /\ ret.posted = 1 /\ posts >= 1

\* The asset's URL for the domain is missing from the html, or its GET raised.
AssetFails(url, resp) == url # arg.domain \/ resp.err

\* C4: with at least 5 tables, a missing asset URL or an exception of the asset's
\* GET makes that asset's field None and never aborts parse: the result carries
\* the caller's domain and the records of tables 1-4, and each asset field is
\* decided by its own URL match and its own response only.
C4_AssetsNeverAbortParse ==
    (Parsed /\ NumTables >= 5) =>
        /\ ret.kind = "result"
        /\ ret.val.domain = arg.domain
        /\ ret.val.dns_records = [a |-> retrieve_results(arg.html.tables[2]),
                                  mx |-> retrieve_results(arg.html.tables[3]),
                                  ns |-> retrieve_results(arg.html.tables[4]),
                                  txt |-> retrieve_txt_record(arg.html.tables[5])]
        /\ AssetFails(arg.html.maps, arg.img) => ret.val.image_data.null
        /\ AssetFails(arg.html.xlsx, arg.xls) => ret.val.xls_data.null
        /\ ret.val.image_data = fetch_asset(arg.html.maps, arg.domain, arg.img).data
        /\ ret.val.xls_data = fetch_asset(arg.html.xlsx, arg.domain, arg.xls).data

\* The image's GET raised, the spreadsheet was fetched: image_data is None,
\* xls_data is not, the records are there.
C4_Witness ==
    /\ Parsed /\ NumTables >= 5
    /\ arg.html.maps = arg.domain /\ arg.img.err
    /\ arg.html.xlsx = arg.domain /\ ~arg.xls.err
    /\ ret.kind = "result"
    /\ ret.val.image_data.null /\ ~ret.val.xls_data.null
    /\ ret.val.dns_records.a # <<>>

\* The asset's GET was made and failed: it raised, or its status is not 200.
FetchFailed(url, resp) == url = arg.domain /\ (resp.err \/ resp.status # 200)

\* C5: when an asset URL is matched and its GET fails, a non-200 status
\* included, the asset's field is None; a field that is not None is the base64
\* of the body of a status-200 response.
C5_FailedFetchGivesNull ==
    (Parsed /\ ret.kind = "result") =>
        /\ FetchFailed(arg.html.maps, arg.img) => ret.val.image_data.null
        /\ FetchFailed(arg.html.xlsx, arg.xls) => ret.val.xls_data.null
        /\ ~ret.val.image_data.null =>
               (arg.img.status = 200 /\ ret.val.image_data.s = b64encode(arg.img.content))
        /\ ~ret.val.xls_data.null =>
               (arg.xls.status = 200 /\ ret.val.xls_data.s = b64encode(arg.xls.content))

\* A call of retrieve_results has returned.
Extracted == pc = "done" /\ arg.op = "retrieve_results"

\* The row has a first cell, and a second cell whose text holds a dotted quad.
HasHostAndIp(tds) == Len(tds) >= 2 /\ FirstIp(TdText(tds[2])) # <<>>

\* The text of the row's third cell, empty when the row has no third cell.
ThirdCellText(tds) == IF Len(tds) > 2 THEN TdText(tds[3]) ELSE <<>>

HasLineBreak(t) == \E i \in 1..Len(t) : t[i] = "\n"

\* C6: the list retrieve_results returns is the order-preserving subsequence of
\* the table's rows made of exactly the rows with an extractable host and ip;
\* a row without a dotted quad in its second cell is left out without raising.
C6_RowIsolation ==
    Extracted =>
        LET good == SelectSeq(arg.table, HasHostAndIp)
        IN  /\ Len(ret.rows) = Len(good)
            /\ \A i \in 1..Len(good) :
                   i <= Len(ret.rows) => ret.rows[i].ip = FirstIp(TdText(good[i][2]))

\* Every row was emitted, so entry i is the entry of row i.
AllEmitted == Extracted /\ Len(ret.rows) = Len(arg.table)

\* C7 as stated: open_service is "N/A" exactly when the row has at most 4 cells,
\* and differs from "N/A" for every text of the fifth cell of a row of 5 or more.
C7_NAExactlyWhenNoFifthCell ==
    AllEmitted =>
        \A i \in 1..Len(arg.table) :
            (ret.rows[i].open_service = NA) <=> (Len(arg.table[i]) <= 4)

\* The text is "N/A" with nothing but whitespace around it.
IsPaddedNA(t) ==
    \E i \in 1..Len(t) :
        /\ i + 2 <= Len(t)
        /\ SubSeq(t, i, i + 2) = NA
        /\ \A j \in 1..Len(t) : (j < i \/ j > i + 2) => IsSpace(t[j])

\* C7 as amended: open_service is "N/A" for every row of at most 4 cells; for a
\* row of 5 or more cells it is a string (possibly empty) that differs from
\* "N/A" unless the fifth cell's text is itself "N/A" with only whitespace
\* around it.
C7_NAWhenNoFifthCell ==
    AllEmitted =>
        \A i \in 1..Len(arg.table) :
            /\ Len(arg.table[i]) <= 4 => ret.rows[i].open_service = NA
            /\ Len(arg.table[i]) >= 5 =>
                   ((ret.rows[i].open_service = NA) <=> IsPaddedNA(TdText(arg.table[i][5])))

\* A table with a row of at most 4 cells and a row of 5, both emitted: the
\* first with "N/A", the second with the lines of its fifth cell.
C7_Witness ==
    /\ AllEmitted
    /\ \E i, j \in 1..Len(arg.table) :
           /\ Len(arg.table[i]) <= 4 /\ ret.rows[i].open_service = NA
           /\ Len(arg.table[j]) >= 5 /\ ret.rows[j].open_service \notin {NA, <<>>}

\* C8: a row with an extractable host and ip is emitted whatever the number of
\* line breaks in its third cell; as and asn_range are pieces of the third
\* cell's text split on line breaks when it has one or more, and both empty
\* when it has none or the cell is absent.
C8_LineBreaksNeverDropRow ==
    (Extracted /\ Len(arg.table) = 1 /\ HasHostAndIp(arg.table[1])) =>
        LET t == ThirdCellText(arg.table[1])
            pieces == {SubSeq(t, i, j) : i \in 1..(Len(t) + 1), j \in 0..Len(t)}
        IN  /\ Len(ret.rows) = 1
            /\ Len(ret.rows) = 1 =>
                  IF HasLineBreak(t)
                  THEN ret.rows[1].as \in pieces /\ ret.rows[1].asn_range \in pieces
                  ELSE ret.rows[1].as = <<>> /\ ret.rows[1].asn_range = <<>>

\* C9: the token is fetched once, at construction: no call of search, submit or
\* parse changes the token or issues a GET of the landing page, and a call
\* issues at most one POST.
C9_TokenFetchedOnce ==
    [][pc = "ready" =>
          /\ pc' = "ready"
          /\ authorization' = authorization
          /\ landingGets' = landingGets /\ landingGets = 1
          /\ posts' \in {posts, posts + 1}
          /\ ret'.posted = posts' - posts]_vars

\* A second call on a client with a token: a search whose POST is rejected.
C9_Witness ==
    /\ pc = "ready" /\ calls >= 2 /\ posts >= 2
    /\ authorization \in Tokens /\ landingGets = 1
    /\ arg.op = "search" /\ Rejected /\ ret.kind = "none"

\* The number of cells in the rows before row r of the table.
RECURSIVE CellsBefore(_, _)
CellsBefore(table, r) == IF r <= 1 THEN 0 ELSE CellsBefore(table, r - 1) + Len(table[r - 1])

\* e is t without its leading and trailing whitespace.
IsTrimOf(e, t) ==
    \E i \in 1..(Len(t) + 1), j \in 0..Len(t) :
        /\ e = SubSeq(t, i, j)
        /\ \A k \in 1..Len(t) : (k < i \/ k > j) => IsSpace(t[k])
        /\ e # <<>> => (~IsSpace(e[1]) /\ ~IsSpace(e[Len(e)]))

\* C10: with at least 5 tables, the txt list has one entry per cell of the table
\* at index 4, in document order, each the trimmed text of its cell.
C10_TxtOnePerCell ==
    (Parsed /\ NumTables >= 5) =>
        /\ ret.kind = "result"
        /\ ret.kind = "result" =>
              LET table == arg.html.tables[5]
                  txt == ret.val.dns_records.txt
              IN  /\ Len(txt) = CellsBefore(table, Len(table) + 1)
                  /\ \A r \in 1..Len(table) : \A c \in 1..Len(table[r]) :
                         /\ CellsBefore(table, r) + c <= Len(txt)
                         /\ IsTrimOf(txt[CellsBefore(table, r) + c], TdText(table[r][c]))

\* A table 4 of two rows with an empty cell and a cell whose text is trimmed.
C10_Witness ==
    /\ Parsed /\ NumTables >= 5 /\ ret.kind = "result"
    /\ Len(arg.html.tables[5]) = 2
    /\ Len(ret.val.dns_records.txt) >= 3
    /\ \E i \in 1..Len(ret.val.dns_records.txt) : ret.val.dns_records.txt[i] = <<>>
    /\ \E r \in 1..2 : \E c \in 1..Len(arg.html.tables[5][r]) :
           TdText(arg.html.tables[5][r][c]) \notin
               {ret.val.dns_records.txt[i] : i \in 1..Len(ret.val.dns_records.txt)}

====
